---------------------------- MODULE Spec2Model ----------------------------
(***************************************************************************)
(* Model of math/python/linear_algebra.py: homogeneous transform builders, *)
(* angle extractors for a point p = [x, y, z, w], their list forms and the *)
(* angle normalizers.                                                      *)
(*                                                                         *)
(* Numbers.  A float is modelled as a record [nan, i, m, e] that stands    *)
(* for the value i + m * 10^e, with i an integer and m * 10^e a fraction   *)
(* of magnitude below 1/2 (m a one digit mantissa, e < 0), or for the      *)
(* not-a-number value when nan is TRUE.  This covers the integers and the  *)
(* small magnitudes the library is written around (f_eps = 1e-10 and the   *)
(* 1e-16 of the script at the end of the file).  Sums are rounded as      *)
(* double precision rounds them: a fraction below half a unit in the last  *)
(* place of a non-zero integer part is absorbed.                           *)
(***************************************************************************)
EXTENDS Integers, Sequences, FiniteSets

VARIABLES fn, angle, p, pArr, angleArr, ret, T, vec, n, stage, b

vars == <<fn, angle, p, pArr, angleArr, ret, T, vec, n, stage, b>>

(***************************************************************************)
(* Bounds of the explored inputs.                                          *)
(***************************************************************************)
MaxAngle == 400

MaxCoord == 2

MaxLen == 3

MaxTurn == 4

MaxChain == 4

(***************************************************************************)
(* Floating point values.                                                  *)
(***************************************************************************)
Int2Num(i) == [nan |-> FALSE, i |-> i, m |-> 0, e |-> 0]

Frac(m, e) == [nan |-> FALSE, i |-> 0, m |-> m, e |-> IF m = 0 THEN 0 ELSE e]

nan == [nan |-> TRUE, i |-> 0, m |-> 0, e |-> 0]

isnan(x) == x.nan

AbsInt(k) == IF k < 0 THEN -k ELSE k

SignInt(k) == IF k < 0 THEN -1 ELSE IF k > 0 THEN 1 ELSE 0

\* m1 * 10^e1 < m2 * 10^e2 for one digit mantissas
FracLt(m1, e1, m2, e2) ==
    IF SignInt(m1) # SignInt(m2) THEN SignInt(m1) < SignInt(m2)
    ELSE IF m1 > 0 THEN e1 < e2 \/ (e1 = e2 /\ m1 < m2)
    ELSE IF m1 < 0 THEN e1 > e2 \/ (e1 = e2 /\ m1 < m2)
    ELSE FALSE

\* a < b; every comparison with not-a-number is false
Lt(x, y) ==
    /\ ~x.nan
    /\ ~y.nan
    /\ \/ x.i < y.i
       \/ x.i = y.i /\ FracLt(x.m, x.e, y.m, y.e)

Gt(x, y) == Lt(y, x)

\* largest power of two that is at most k, for k >= 1
RECURSIVE Pow2Floor(_)
Pow2Floor(k) == IF k < 2 THEN 1 ELSE 2 * Pow2Floor(k \div 2)

\* whether the fraction m * 10^e is below half a unit in the last place of
\* the integer i in double precision (2^-53 = 1.11e-16 relative)
Absorbed(i, m, e) ==
    /\ i # 0
    /\ m # 0
    /\ e <= -16
    /\ AbsInt(m) * 100 < 111 * Pow2Floor(AbsInt(i))

\* the double nearest to i + m * 10^e
Round(i, m, e) ==
    IF Absorbed(i, m, e) THEN Int2Num(i)
    ELSE [nan |-> FALSE, i |-> i, m |-> m, e |-> IF m = 0 THEN 0 ELSE e]

(***************************************************************************)
(* Matrices.  A matrix is a tuple of four rows of four integers.  The      *)
(* angles of the rotations are the multiples of 90 degrees, taken with the *)
(* exact cosine and sine (0, 1, -1); radians(angle) is counted in quarter  *)
(* turns.  In double precision np.cos(np.radians(90)) is 6.1e-17, not 0.   *)
(***************************************************************************)
radians(deg) == deg \div 90

cos(a) == CASE a % 4 = 0 -> 1 [] a % 4 = 1 -> 0 [] a % 4 = 2 -> -1 [] a % 4 = 3 -> 0

sin(a) == CASE a % 4 = 0 -> 0 [] a % 4 = 1 -> 1 [] a % 4 = 2 -> 0 [] a % 4 = 3 -> -1

Trans(x, y, z) ==
    << <<1, 0, 0, x>>,
       <<0, 1, 0, y>>,
       <<0, 0, 1, z>>,
       <<0, 0, 0, 1>> >>

\* variant: the transposed rotation block
Rot_yz_Transposed(deg) ==
    LET a == radians(deg)
        co == cos(a)
        si == sin(a)
    IN  << <<1, 0, 0, 0>>,
           <<0, co, si, 0>>,
           <<0, -si, co, 0>>,
           <<0, 0, 0, 1>> >>

Rot_yz(deg) ==
    LET a == radians(deg)
        co == cos(a)
        si == sin(a)
    IN  << <<1, 0, 0, 0>>,
           <<0, co, -si, 0>>,
           <<0, si, co, 0>>,
           <<0, 0, 0, 1>> >>

\* variant: si in row z and -si in row x
Rot_zx_Transposed(deg) ==
    LET a == radians(deg)
        co == cos(a)
        si == sin(a)
    IN  << <<co, 0, -si, 0>>,
           <<0, 1, 0, 0>>,
           <<si, 0, co, 0>>,
           <<0, 0, 0, 1>> >>

Rot_zx(deg) ==
    LET a == radians(deg)
        co == cos(a)
        si == sin(a)
    IN  << <<co, 0, si, 0>>,
           <<0, 1, 0, 0>>,
           <<-si, 0, co, 0>>,
           <<0, 0, 0, 1>> >>

\* variant: the transposed rotation block
Rot_xy_Transposed(deg) ==
    LET a == radians(deg)
        co == cos(a)
        si == sin(a)
    IN  << <<co, si, 0, 0>>,
           <<-si, co, 0, 0>>,
           <<0, 0, 1, 0>>,
           <<0, 0, 0, 1>> >>

Rot_xy(deg) ==
    LET a == radians(deg)
        co == cos(a)
        si == sin(a)
    IN  << <<co, -si, 0, 0>>,
           <<si, co, 0, 0>>,
           <<0, 0, 1, 0>>,
           <<0, 0, 0, 1>> >>

\* A @ B for two matrices
MatMul(A, B) ==
    [i \in 1..4 |->
        [j \in 1..4 |->
            A[i][1] * B[1][j] + A[i][2] * B[2][j]
                + A[i][3] * B[3][j] + A[i][4] * B[4][j]]]

\* A @ v for a matrix and a vector
MatVec(A, v) ==
    [i \in 1..4 |->
        A[i][1] * v[1] + A[i][2] * v[2] + A[i][3] * v[3] + A[i][4] * v[4]]

\* the script: a = [0, 0, 0, 1] and
\* b = Rot_zx(90) @ Rot_yz(90) @ Rot_xy(90) @ Trans(15, 0, 0) @ a
main_a == <<0, 0, 0, 1>>

main_b ==
    MatVec(MatMul(MatMul(MatMul(Rot_zx(90), Rot_yz(90)), Rot_xy(90)),
                  Trans(15, 0, 0)),
           main_a)

\* the factors of the script's product, in the order they act on a
MainFactor(k) ==
    CASE k = 1 -> Trans(15, 0, 0)
      [] k = 2 -> Rot_xy(90)
      [] k = 3 -> Rot_yz(90)
      [] k = 4 -> Rot_zx(90)

(***************************************************************************)
(* Angle normalizers.                                                      *)
(***************************************************************************)
\* angle % 360 of Python: the remainder takes the sign of the divisor; for a
\* float the remainder of fmod, when negative, has 360 added to it, rounded
Mod360(x) ==
    LET q == x.i % 360
    IN  IF x.nan THEN nan
        ELSE IF q = 0 /\ x.m < 0 THEN Round(360, x.m, x.e)
        ELSE [nan |-> FALSE, i |-> q, m |-> x.m, e |-> x.e]

\* a + 360 and a - 360 in floating point; not-a-number stays not-a-number
Add360(x) == IF x.nan THEN nan ELSE Round(x.i + 360, x.m, x.e)

Sub360(x) == IF x.nan THEN nan ELSE Round(x.i - 360, x.m, x.e)

\* variant: an undefined angle is taken for the angle 0
toAngle360_NanAsZero(t) ==
    LET a == Mod360(IF isnan(t) THEN Int2Num(0) ELSE t)
    IN  IF Lt(a, Int2Num(0)) THEN Add360(a) ELSE a

toAngle360(t) ==
    IF isnan(t) THEN nan
    ELSE LET a == Mod360(t)
         IN  IF Lt(a, Int2Num(0)) THEN Add360(a) ELSE a

\* variant: folds at a >= 180 instead of a > 180
toAngle180_FoldAt180(t) ==
    LET a == toAngle360(t)
    IN  IF ~Lt(a, Int2Num(180)) /\ ~a.nan THEN Sub360(a) ELSE a

toAngle180(t) ==
    LET a == toAngle360(t)
    IN  IF Gt(a, Int2Num(180)) THEN Sub360(a) ELSE a


(***************************************************************************)
(* Angles for vector p = [x, y, z, w].                                     *)
(*                                                                         *)
(* The result of an extractor is nan or a record [nan, lo, hi]: an angle   *)
(* in degrees with lo <= angle <= hi, exact when lo = hi.  The arctangent  *)
(* is exact on the axes and the diagonals; elsewhere the result is known   *)
(* to the octant, bounds included, which also covers the rounding of a     *)
(* result next to an axis onto that axis (arctan2(1e-16, -1) is pi).       *)
(* A negative zero, for which arctan2 yields -180, is not a value of the   *)
(* model: integer and decimal inputs do not produce it.                    *)
(***************************************************************************)
f_eps == Frac(1, -10)

Neg(x) == [x EXCEPT !.i = -x.i, !.m = -x.m]

\* np.abs
Abs(x) == IF Lt(x, Int2Num(0)) THEN Neg(x) ELSE x

Sign(x) == IF x.i # 0 THEN SignInt(x.i) ELSE SignInt(x.m)

\* -1, 0, 1 as |s| is below, equal to, above |f|
CmpAbs(s, f) ==
    IF Lt(Abs(s), Abs(f)) THEN -1
    ELSE IF Lt(Abs(f), Abs(s)) THEN 1
    ELSE 0

Deg(lo, hi) == [nan |-> FALSE, lo |-> lo, hi |-> hi]

\* np.degrees(np.arctan2(s, f)) from the signs of s and f and the order of
\* their magnitudes; arctan2(0, 0) is 0
Arctan2Core(ss, sf, c) ==
    LET mag == IF sf > 0
               THEN (IF c < 0 THEN <<0, 45>>
                     ELSE IF c = 0 THEN <<45, 45>> ELSE <<45, 90>>)
               ELSE IF sf = 0 THEN <<90, 90>>
               ELSE (IF c > 0 THEN <<90, 135>>
                     ELSE IF c = 0 THEN <<135, 135>> ELSE <<135, 180>>)
    IN  IF ss = 0 THEN (IF sf >= 0 THEN Deg(0, 0) ELSE Deg(180, 180))
        ELSE IF ss > 0 THEN Deg(mag[1], mag[2])
        ELSE Deg(-mag[2], -mag[1])

Arctan2Deg(s, f) == Arctan2Core(Sign(s), Sign(f), CmpAbs(s, f))

\* variant: undefined as soon as one of the two coordinates is below f_eps
fAngleYZ_EitherSmall(q) ==
    LET y == q[2]
        z == q[3]
    IN  IF Lt(Abs(y), f_eps) \/ Lt(Abs(z), f_eps) THEN nan
        ELSE Arctan2Deg(z, y)

fAngleYZ(q) ==
    LET y == q[2]
        z == q[3]
    IN  IF Lt(Abs(y), f_eps) /\ Lt(Abs(z), f_eps) THEN nan
        ELSE Arctan2Deg(z, y)

\* variant: the arguments of arctan2 exchanged
fAngleZX_Swapped(q) ==
    LET x == q[1]
        z == q[3]
    IN  IF Lt(Abs(x), f_eps) /\ Lt(Abs(z), f_eps) THEN nan
        ELSE Arctan2Deg(z, x)

fAngleZX(q) ==
    LET x == q[1]
        z == q[3]
    IN  IF Lt(Abs(x), f_eps) /\ Lt(Abs(z), f_eps) THEN nan
        ELSE Arctan2Deg(x, z)

fAngleXY(q) ==
    LET x == q[1]
        y == q[2]
    IN  IF Lt(Abs(x), f_eps) /\ Lt(Abs(y), f_eps) THEN nan
        ELSE Arctan2Deg(y, x)

(***************************************************************************)
(* Axis to radius angles.  A squared magnitude is kept exactly, as its     *)
(* coefficients at 10^0, 10^-20 and 10^-32; the radius r is represented    *)
(* by its square, which decides its sign (r >= 0) and its order against    *)
(* the axis coordinate.  The coordinates are integers or pure fractions.   *)
(***************************************************************************)
\* np.power(v, 2)
Sq(v) ==
    [u |-> v.i * v.i,
     t |-> IF v.e = -10 THEN v.m * v.m ELSE 0,
     s |-> IF v.e = -16 THEN v.m * v.m ELSE 0]

SumSq(a2, b2) == [u |-> a2.u + b2.u, t |-> a2.t + b2.t, s |-> a2.s + b2.s]

\* sign of np.sqrt(r2)
SignSqrt(r2) == IF r2.u = 0 /\ r2.t = 0 /\ r2.s = 0 THEN 0 ELSE 1

\* -1, 0, 1 as np.sqrt(r2) is below, equal to, above |a| where a2 = a^2
CmpSq(r2, a2) ==
    IF r2.u # a2.u THEN (IF r2.u < a2.u THEN -1 ELSE 1)
    ELSE IF r2.t # a2.t THEN (IF r2.t < a2.t THEN -1 ELSE 1)
    ELSE IF r2.s # a2.s THEN (IF r2.s < a2.s THEN -1 ELSE 1)
    ELSE 0

\* variant: the tolerance check of the in-plane angles applied to r and x
fAngleXR_WithTolerance(q) ==
    LET x == q[1]
        y == q[2]
        z == q[3]
        r2 == SumSq(Sq(z), Sq(y))
    IN  IF Lt(Abs(x), f_eps) /\ CmpSq(r2, Sq(f_eps)) < 0 THEN nan
        ELSE Arctan2Core(SignSqrt(r2), Sign(x), CmpSq(r2, Sq(x)))

fAngleXR(q) ==
    LET x == q[1]
        y == q[2]
        z == q[3]
        r2 == SumSq(Sq(z), Sq(y))
    IN  Arctan2Core(SignSqrt(r2), Sign(x), CmpSq(r2, Sq(x)))

fAngleYR(q) ==
    LET x == q[1]
        y == q[2]
        z == q[3]
        r2 == SumSq(Sq(z), Sq(x))
    IN  Arctan2Core(SignSqrt(r2), Sign(y), CmpSq(r2, Sq(y)))

fAngleZR(q) ==
    LET x == q[1]
        y == q[2]
        z == q[3]
        r2 == SumSq(Sq(x), Sq(y))
    IN  Arctan2Core(SignSqrt(r2), Sign(z), CmpSq(r2, Sq(z)))

(***************************************************************************)
(* List forms: np.array([f(x) for x in angleArr]), the results appended    *)
(* one by one, in the order of angleArr.                                   *)
(***************************************************************************)
\* variant: the undefined results are left out of the list
fAngleArrYZ_SkipUndefined(arr) ==
    LET build[k \in 0..Len(arr)] ==
            IF k = 0 THEN <<>>
            ELSE IF fAngleYZ(arr[k]).nan THEN build[k - 1]
            ELSE Append(build[k - 1], fAngleYZ(arr[k]))
    IN  build[Len(arr)]

fAngleArrYZ(arr) ==
    LET build[k \in 0..Len(arr)] ==
            IF k = 0 THEN <<>> ELSE Append(build[k - 1], fAngleYZ(arr[k]))
    IN  build[Len(arr)]

fAngleArrZX(arr) ==
    LET build[k \in 0..Len(arr)] ==
            IF k = 0 THEN <<>> ELSE Append(build[k - 1], fAngleZX(arr[k]))
    IN  build[Len(arr)]

fAngleArrXY(arr) ==
    LET build[k \in 0..Len(arr)] ==
            IF k = 0 THEN <<>> ELSE Append(build[k - 1], fAngleXY(arr[k]))
    IN  build[Len(arr)]

fAngleArrXR(arr) ==
    LET build[k \in 0..Len(arr)] ==
            IF k = 0 THEN <<>> ELSE Append(build[k - 1], fAngleXR(arr[k]))
    IN  build[Len(arr)]

fAngleArrYR(arr) ==
    LET build[k \in 0..Len(arr)] ==
            IF k = 0 THEN <<>> ELSE Append(build[k - 1], fAngleYR(arr[k]))
    IN  build[Len(arr)]

fAngleArrZR(arr) ==
    LET build[k \in 0..Len(arr)] ==
            IF k = 0 THEN <<>> ELSE Append(build[k - 1], fAngleZR(arr[k]))
    IN  build[Len(arr)]

toAngleArr360(arr) ==
    LET build[k \in 0..Len(arr)] ==
            IF k = 0 THEN <<>> ELSE Append(build[k - 1], toAngle360(arr[k]))
    IN  build[Len(arr)]

toAngleArr180(arr) ==
    LET build[k \in 0..Len(arr)] ==
            IF k = 0 THEN <<>> ELSE Append(build[k - 1], toAngle180(arr[k]))
    IN  build[Len(arr)]

(***************************************************************************)
(* Inputs.                                                                 *)
(***************************************************************************)
TinyNums == {Frac(s, e) : s \in {-1, 1}, e \in {-10, -16}}

Angles == {Int2Num(i) : i \in -MaxAngle..MaxAngle} \cup TinyNums \cup {nan}

Coords == {Int2Num(i) : i \in -MaxCoord..MaxCoord} \cup TinyNums

Points == {<<x, y, z, w>> : x \in Coords, y \in Coords, z \in Coords,
                            w \in {Int2Num(0), Int2Num(1)}}

Origin == <<Int2Num(0), Int2Num(0), Int2Num(0), Int2Num(1)>>

SamplePoints ==
    {Origin,
     <<Int2Num(2), Int2Num(1), Int2Num(1), Int2Num(1)>>,
     <<Int2Num(0), Int2Num(-1), Frac(1, -16), Int2Num(0)>>,
     <<Int2Num(-1), Int2Num(0), Int2Num(2), Int2Num(1)>>}

SampleAngles == {nan, Int2Num(-181), Int2Num(360), Frac(-1, -16)}

SeqsOf(S) == UNION {[1..k -> S] : k \in 0..MaxLen}

TransArgs == {0, 15}

RotAngles == {90 * k : k \in -1..MaxTurn}

(***************************************************************************)
(* State machine.  The functions are pure: the initial state holds the     *)
(* argument and each action is the call of one function on it.             *)
(***************************************************************************)
Idle ==
    /\ fn = "none"
    /\ ret = nan
    /\ T = <<>>
    /\ vec = <<0, 0, 0, 1>>
    /\ n = 0
    /\ stage = 0
    /\ b = <<>>

InitNorm ==
    /\ Idle
    /\ angle \in Angles
    /\ p = Origin
    /\ pArr = <<>>
    /\ angleArr = <<>>

Call_toAngle360 ==
    /\ fn' = "toAngle360"
    /\ ret' = toAngle360(angle)
    /\ UNCHANGED <<angle, p, pArr, angleArr, T, vec, n, stage, b>>

Call_toAngle180 ==
    /\ fn' = "toAngle180"
    /\ ret' = toAngle180(angle)
    /\ UNCHANGED <<angle, p, pArr, angleArr, T, vec, n, stage, b>>

NextNorm == Call_toAngle360 \/ Call_toAngle180

SpecNorm == InitNorm /\ [][NextNorm]_vars

InitAngle ==
    /\ Idle
    /\ angle = Int2Num(0)
    /\ p \in Points
    /\ pArr = <<>>
    /\ angleArr = <<>>

Call_fAngleYZ ==
    /\ fn' = "fAngleYZ"
    /\ ret' = fAngleYZ(p)
    /\ UNCHANGED <<angle, p, pArr, angleArr, T, vec, n, stage, b>>

Call_fAngleZX ==
    /\ fn' = "fAngleZX"
    /\ ret' = fAngleZX(p)
    /\ UNCHANGED <<angle, p, pArr, angleArr, T, vec, n, stage, b>>

Call_fAngleXY ==
    /\ fn' = "fAngleXY"
    /\ ret' = fAngleXY(p)
    /\ UNCHANGED <<angle, p, pArr, angleArr, T, vec, n, stage, b>>

Call_fAngleXR ==
    /\ fn' = "fAngleXR"
    /\ ret' = fAngleXR(p)
    /\ UNCHANGED <<angle, p, pArr, angleArr, T, vec, n, stage, b>>

Call_fAngleYR ==
    /\ fn' = "fAngleYR"
    /\ ret' = fAngleYR(p)
    /\ UNCHANGED <<angle, p, pArr, angleArr, T, vec, n, stage, b>>

Call_fAngleZR ==
    /\ fn' = "fAngleZR"
    /\ ret' = fAngleZR(p)
    /\ UNCHANGED <<angle, p, pArr, angleArr, T, vec, n, stage, b>>

NextAngle ==
    \/ Call_fAngleYZ
    \/ Call_fAngleZX
    \/ Call_fAngleXY
    \/ Call_fAngleXR
    \/ Call_fAngleYR
    \/ Call_fAngleZR

SpecAngle == InitAngle /\ [][NextAngle]_vars

InitBatch ==
    /\ Idle
    /\ angle = Int2Num(0)
    /\ p = Origin
    /\ \/ pArr \in SeqsOf(SamplePoints) /\ angleArr = <<>>
       \/ pArr = <<>> /\ angleArr \in SeqsOf(SampleAngles)

Call_fAngleArrYZ ==
    /\ fn' = "fAngleArrYZ"
    /\ ret' = fAngleArrYZ(pArr)
    /\ UNCHANGED <<angle, p, pArr, angleArr, T, vec, n, stage, b>>

Call_fAngleArrZX ==
    /\ fn' = "fAngleArrZX"
    /\ ret' = fAngleArrZX(pArr)
    /\ UNCHANGED <<angle, p, pArr, angleArr, T, vec, n, stage, b>>

Call_fAngleArrXY ==
    /\ fn' = "fAngleArrXY"
    /\ ret' = fAngleArrXY(pArr)
    /\ UNCHANGED <<angle, p, pArr, angleArr, T, vec, n, stage, b>>

Call_fAngleArrXR ==
    /\ fn' = "fAngleArrXR"
    /\ ret' = fAngleArrXR(pArr)
    /\ UNCHANGED <<angle, p, pArr, angleArr, T, vec, n, stage, b>>

Call_fAngleArrYR ==
    /\ fn' = "fAngleArrYR"
    /\ ret' = fAngleArrYR(pArr)
    /\ UNCHANGED <<angle, p, pArr, angleArr, T, vec, n, stage, b>>

Call_fAngleArrZR ==
    /\ fn' = "fAngleArrZR"
    /\ ret' = fAngleArrZR(pArr)
    /\ UNCHANGED <<angle, p, pArr, angleArr, T, vec, n, stage, b>>

Call_toAngleArr360 ==
    /\ fn' = "toAngleArr360"
    /\ ret' = toAngleArr360(angleArr)
    /\ UNCHANGED <<angle, p, pArr, angleArr, T, vec, n, stage, b>>

Call_toAngleArr180 ==
    /\ fn' = "toAngleArr180"
    /\ ret' = toAngleArr180(angleArr)
    /\ UNCHANGED <<angle, p, pArr, angleArr, T, vec, n, stage, b>>

NextBatch ==
    \/ Call_fAngleArrYZ
    \/ Call_fAngleArrZX
    \/ Call_fAngleArrXY
    \/ Call_fAngleArrXR
    \/ Call_fAngleArrYR
    \/ Call_fAngleArrZR
    \/ Call_toAngleArr360
    \/ Call_toAngleArr180

SpecBatch == InitBatch /\ [][NextBatch]_vars

(***************************************************************************)
(* Transforms: a builder returns the matrix T; Apply is T @ vec, starting  *)
(* from the point a of the script; stage counts how many factors of the    *)
(* script's product have been applied to a, in order (-1 once another      *)
(* transform was applied); Main is the script's own evaluation of b.       *)
(***************************************************************************)
InitMat ==
    /\ Idle
    /\ angle = Int2Num(0)
    /\ p = Origin
    /\ pArr = <<>>
    /\ angleArr = <<>>

Call_Trans ==
    \E x \in TransArgs, y \in TransArgs, z \in TransArgs :
        /\ fn' = "Trans"
        /\ T' = Trans(x, y, z)
        /\ UNCHANGED <<angle, p, pArr, angleArr, ret, vec, n, stage, b>>

Call_Rot_yz ==
    \E deg \in RotAngles :
        /\ fn' = "Rot_yz"
        /\ angle' = Int2Num(deg)
        /\ T' = Rot_yz(deg)
        /\ UNCHANGED <<p, pArr, angleArr, ret, vec, n, stage, b>>

Call_Rot_zx ==
    \E deg \in RotAngles :
        /\ fn' = "Rot_zx"
        /\ angle' = Int2Num(deg)
        /\ T' = Rot_zx(deg)
        /\ UNCHANGED <<p, pArr, angleArr, ret, vec, n, stage, b>>

Call_Rot_xy ==
    \E deg \in RotAngles :
        /\ fn' = "Rot_xy"
        /\ angle' = Int2Num(deg)
        /\ T' = Rot_xy(deg)
        /\ UNCHANGED <<p, pArr, angleArr, ret, vec, n, stage, b>>

Apply ==
    /\ T # <<>>
    /\ n < MaxChain
    /\ vec' = MatVec(T, vec)
    /\ n' = n + 1
    /\ stage' = IF stage = n /\ n < 4 /\ T = MainFactor(n + 1) THEN n + 1 ELSE -1
    /\ UNCHANGED <<fn, angle, p, pArr, angleArr, ret, T, b>>

Main ==
    /\ b = <<>>
    /\ b' = main_b
    /\ UNCHANGED <<fn, angle, p, pArr, angleArr, ret, T, vec, n, stage>>

NextMat ==
    \/ Call_Trans
    \/ Call_Rot_yz
    \/ Call_Rot_zx
    \/ Call_Rot_xy
    \/ Apply
    \/ Main

SpecMat == InitMat /\ [][NextMat]_vars

(***************************************************************************)
(* Properties of the angle normalizers.                                    *)
(***************************************************************************)
InRange0_360(r) == ~r.nan /\ ~Lt(r, Int2Num(0)) /\ Lt(r, Int2Num(360))

\* r - t is a multiple of 360: equal fractions, integer parts congruent
Congruent360(r, t) == r.m = t.m /\ r.e = t.e /\ (r.i - t.i) % 360 = 0

\* C1: for every finite angle t, toAngle360(t) is the representative of t
\* in [0, 360): 0 <= r < 360 and r congruent to t modulo 360; 360 -> 0,
\* -1 -> 359, -181 -> 179, -180 -> 180, 180 -> 180.
C1_toAngle360_Representative ==
    (fn = "toAngle360" /\ ~angle.nan) =>
        /\ InRange0_360(ret)
        /\ Congruent360(ret, angle)
        /\ (angle = Int2Num(360) => ret = Int2Num(0))
        /\ (angle = Int2Num(-1) => ret = Int2Num(359))
        /\ (angle = Int2Num(-181) => ret = Int2Num(179))
        /\ (angle = Int2Num(-180) => ret = Int2Num(180))
        /\ (angle = Int2Num(180) => ret = Int2Num(180))

\* The statement of C1 for the integer angles alone.
toAngle360_OnIntegers ==
    (fn = "toAngle360" /\ ~angle.nan /\ angle.m = 0) =>
        /\ InRange0_360(ret)
        /\ Congruent360(ret, angle)

\* C2: for every finite angle t, toAngle180(t) lies in (-180, 180]; it is
\* toAngle360(t) when that is at most 180 and toAngle360(t) - 360 otherwise;
\* -180 is never returned and both 180 and -180 map to 180.
C2_toAngle180_Range ==
    (fn = "toAngle180" /\ ~angle.nan) =>
        LET a == toAngle360(angle)
        IN  /\ ~ret.nan
            /\ Lt(Int2Num(-180), ret)
            /\ ~Gt(ret, Int2Num(180))
            /\ (~Gt(a, Int2Num(180)) => ret = a)
            /\ (Gt(a, Int2Num(180)) =>
                    ret.i = a.i - 360 /\ ret.m = a.m /\ ret.e = a.e)
            /\ ret # Int2Num(-180)
            /\ (angle \in {Int2Num(180), Int2Num(-180)} => ret = Int2Num(180))

C2_Witness == fn = "toAngle180" /\ angle = Int2Num(-180) /\ ret = Int2Num(180)

\* C3: on the undefined (not-a-number) angle both normalizers return the
\* undefined angle; toAngle180 does not subtract 360 from it.
C3_NanPassesThrough ==
    (fn \in {"toAngle360", "toAngle180"} /\ angle.nan) => ret = nan

C3_Witness == fn = "toAngle180" /\ angle.nan /\ ret.nan

(***************************************************************************)
(* Properties of the angle extractors.                                     *)
(***************************************************************************)
\* |v| < 1e-10, read off the representation
Small(v) == v.i = 0 /\ (v.m = 0 \/ v.e < -10)

\* C4: an in-plane extractor returns the undefined angle if and only if
\* both of its two coordinates are below f_eps in magnitude; the third
\* coordinate and w play no part.
C4_UndefinedIffBothSmall ==
    /\ fn = "fAngleYZ" => (ret.nan <=> (Small(p[2]) /\ Small(p[3])))
    /\ fn = "fAngleZX" => (ret.nan <=> (Small(p[1]) /\ Small(p[3])))
    /\ fn = "fAngleXY" => (ret.nan <=> (Small(p[1]) /\ Small(p[2])))

C4_Witness ==
    /\ fn = "fAngleYZ"
    /\ p[2] = Int2Num(-1)
    /\ p[3] = Frac(1, -16)
    /\ ~ret.nan

AxisCoord == IF fn = "fAngleXR" THEN p[1] ELSE IF fn = "fAngleYR" THEN p[2] ELSE p[3]

OnAxis ==
    IF fn = "fAngleXR" THEN Sign(p[2]) = 0 /\ Sign(p[3]) = 0
    ELSE IF fn = "fAngleYR" THEN Sign(p[1]) = 0 /\ Sign(p[3]) = 0
    ELSE Sign(p[1]) = 0 /\ Sign(p[2]) = 0

\* C5: an axis-to-radius extractor never returns the undefined angle; its
\* result lies in [0, 180], at most 90 on the positive side of the axis and
\* at least 90 on the negative side, and it is exactly 0 at the origin.
C5_RadiusAngleDefined ==
    fn \in {"fAngleXR", "fAngleYR", "fAngleZR"} =>
        /\ ~ret.nan
        /\ 0 <= ret.lo /\ ret.lo <= ret.hi /\ ret.hi <= 180
        /\ (Sign(AxisCoord) > 0 => ret.hi <= 90)
        /\ (Sign(AxisCoord) < 0 => ret.lo >= 90)
        /\ (Sign(AxisCoord) = 0 /\ ~OnAxis => ret = Deg(90, 90))
        /\ (OnAxis /\ Sign(AxisCoord) >= 0 => ret = Deg(0, 0))
        /\ (OnAxis /\ Sign(AxisCoord) < 0 => ret = Deg(180, 180))

C5_Witness == fn = "fAngleXR" /\ p = Origin /\ ret = Deg(0, 0)

IsIntPoint(q) == \A k \in 1..3 : q[k].m = 0

\* the direction of the angles on the axes and the diagonals
DirOf(a) ==
    CASE a = 0 -> <<1, 0>>
      [] a = 45 -> <<1, 1>>
      [] a = 90 -> <<0, 1>>
      [] a = 135 -> <<-1, 1>>
      [] a = 180 -> <<-1, 0>>
      [] a = -45 -> <<1, -1>>
      [] a = -90 -> <<0, -1>>
      [] a = -135 -> <<-1, -1>>
      [] a = -180 -> <<-1, 0>>

Cross(u, v) == u[1] * v[2] - u[2] * v[1]

Dot(u, v) == u[1] * v[1] + u[2] * v[2]

\* r is the angle, in degrees in (-180, 180], from the positive 'from' axis
\* to the direction (from, to): on it when exact, in the octant otherwise
IsAngleOf(r, from, to) ==
    /\ ~r.nan
    /\ IF r.lo = r.hi
       THEN /\ r.lo # -180
            /\ Cross(DirOf(r.lo), <<from, to>>) = 0
            /\ Dot(DirOf(r.lo), <<from, to>>) > 0
       ELSE /\ r.hi = r.lo + 45
            /\ Cross(DirOf(r.lo), <<from, to>>) > 0
            /\ Cross(<<from, to>>, DirOf(r.hi)) > 0

\* C6: for a non-degenerate point fAngleYZ is the angle of (y, z) from +y
\* towards +z, fAngleZX that of (z, x) from +z towards +x, fAngleXY that of
\* (x, y) from +x towards +y; for p = [2, 1, 1, 1]: 45, atan2(2, 1), atan2(1, 2).
C6_InPlaneArgumentOrder ==
    (IsIntPoint(p) /\ ~ret.nan) =>
        /\ fn = "fAngleYZ" => IsAngleOf(ret, p[2].i, p[3].i)
        /\ fn = "fAngleZX" => IsAngleOf(ret, p[3].i, p[1].i)
        /\ fn = "fAngleXY" => IsAngleOf(ret, p[1].i, p[2].i)
        /\ (p[1].i = 2 /\ p[2].i = 1 /\ p[3].i = 1) =>
              /\ fn = "fAngleYZ" => ret = Deg(45, 45)
              /\ fn = "fAngleZX" => ret = Deg(45, 90)
              /\ fn = "fAngleXY" => ret = Deg(0, 45)

C6_Witness ==
    /\ fn = "fAngleZX"
    /\ p = <<Int2Num(2), Int2Num(1), Int2Num(1), Int2Num(1)>>
    /\ ret = Deg(45, 90)

(***************************************************************************)
(* Properties of the list forms.                                           *)
(***************************************************************************)
\* C7: every list form returns a sequence of the length of its argument
\* whose i-th element is the scalar function applied to the i-th element;
\* the empty sequence yields the empty sequence and an undefined result
\* changes no other element.
C7_ListFormsElementWise ==
    /\ fn = "fAngleArrYZ" =>
           /\ Len(ret) = Len(pArr)
           /\ \A k \in 1..Len(pArr) : ret[k] = fAngleYZ(pArr[k])
    /\ fn = "fAngleArrZX" =>
           /\ Len(ret) = Len(pArr)
           /\ \A k \in 1..Len(pArr) : ret[k] = fAngleZX(pArr[k])
    /\ fn = "fAngleArrXY" =>
           /\ Len(ret) = Len(pArr)
           /\ \A k \in 1..Len(pArr) : ret[k] = fAngleXY(pArr[k])
    /\ fn = "fAngleArrXR" =>
           /\ Len(ret) = Len(pArr)
           /\ \A k \in 1..Len(pArr) : ret[k] = fAngleXR(pArr[k])
    /\ fn = "fAngleArrYR" =>
           /\ Len(ret) = Len(pArr)
           /\ \A k \in 1..Len(pArr) : ret[k] = fAngleYR(pArr[k])
    /\ fn = "fAngleArrZR" =>
           /\ Len(ret) = Len(pArr)
           /\ \A k \in 1..Len(pArr) : ret[k] = fAngleZR(pArr[k])
    /\ fn = "toAngleArr360" =>
           /\ Len(ret) = Len(angleArr)
           /\ \A k \in 1..Len(angleArr) : ret[k] = toAngle360(angleArr[k])
    /\ fn = "toAngleArr180" =>
           /\ Len(ret) = Len(angleArr)
           /\ \A k \in 1..Len(angleArr) : ret[k] = toAngle180(angleArr[k])
    /\ (fn \in {"fAngleArrYZ", "fAngleArrZX", "fAngleArrXY", "fAngleArrXR",
                "fAngleArrYR", "fAngleArrZR"} /\ pArr = <<>>) => ret = <<>>
    /\ (fn \in {"toAngleArr360", "toAngleArr180"} /\ angleArr = <<>>) =>
           ret = <<>>

C7_Witness ==
    /\ fn = "fAngleArrYZ"
    /\ Len(pArr) = 3
    /\ Len(ret) = 3
    /\ ret[1] = Deg(45, 45)
    /\ ret[2].nan
    /\ ret[3] = Deg(135, 180)

(***************************************************************************)
(* Properties of the transform builders.                                   *)
(***************************************************************************)
Identity4 == Trans(0, 0, 0)

\* M is the identity outside the rows and columns i and j
IdentityOutside(M, i, j) ==
    \A r \in 1..4, c \in 1..4 :
        (r \notin {i, j} \/ c \notin {i, j}) => M[r][c] = Identity4[r][c]

\* C8: Rot_yz(angle) is the identity in the x and w rows and columns with
\* [[co, -si], [si, co]] in the (y, z) block; Rot_xy(angle) is the identity
\* in the z and w rows and columns with [[co, -si], [si, co]] in the (x, y)
\* block; the bottom row of both is [0, 0, 0, 1].
C8_Rot_yz_Rot_xy_Entries ==
    LET co == cos(radians(angle.i))
        si == sin(radians(angle.i))
    IN  /\ fn = "Rot_yz" =>
              /\ T[2][2] = co /\ T[2][3] = -si
              /\ T[3][2] = si /\ T[3][3] = co
              /\ IdentityOutside(T, 2, 3)
              /\ T[4] = <<0, 0, 0, 1>>
              /\ (angle.i = 90 => MatVec(T, <<0, 1, 0, 1>>) = <<0, 0, 1, 1>>)
        /\ fn = "Rot_xy" =>
              /\ T[1][1] = co /\ T[1][2] = -si
              /\ T[2][1] = si /\ T[2][2] = co
              /\ IdentityOutside(T, 1, 2)
              /\ T[4] = <<0, 0, 0, 1>>
              /\ (angle.i = 90 => MatVec(T, <<1, 0, 0, 1>>) = <<0, 1, 0, 1>>)

C8_Witness == fn = "Rot_yz" /\ angle.i = 90 /\ T[2][3] = -1 /\ T[3][2] = 1

\* C9 as stated: Rot_zx(angle) is the identity in the y and w rows and
\* columns with M[z][z] = co, M[z][x] = si, M[x][z] = -si, M[x][x] = co.
C9_Rot_zx_AsStated ==
    fn = "Rot_zx" =>
        LET co == cos(radians(angle.i))
            si == sin(radians(angle.i))
        IN  /\ T[3][3] = co /\ T[3][1] = si
            /\ T[1][3] = -si /\ T[1][1] = co
            /\ IdentityOutside(T, 1, 3)

\* C9 amended: Rot_zx(angle) is the identity in the y and w rows and
\* columns with M[z][z] = co, M[z][x] = -si, M[x][z] = si, M[x][x] = co:
\* read in the order z then x the block is [[co, -si], [si, co]], as the
\* blocks of the other two builders are; a quarter turn carries +z onto +x.
C9_Rot_zx_Entries ==
    fn = "Rot_zx" =>
        LET co == cos(radians(angle.i))
            si == sin(radians(angle.i))
        IN  /\ T[3][3] = co /\ T[3][1] = -si
            /\ T[1][3] = si /\ T[1][1] = co
            /\ IdentityOutside(T, 1, 3)
            /\ T[4] = <<0, 0, 0, 1>>
            /\ (angle.i = 90 => MatVec(T, <<0, 0, 1, 1>>) = <<1, 0, 0, 1>>)

C9_Witness == fn = "Rot_zx" /\ angle.i = 90 /\ T[1][3] = 1 /\ T[3][1] = -1

\* C10: Rot_zx(90) @ Rot_yz(90) @ Rot_xy(90) @ Trans(15, 0, 0) @ [0, 0, 0, 1]
\* is [15, 0, 0, 1]; the point is [15, 0, 0, 1] after Trans, [0, 15, 0, 1]
\* after Rot_xy, [0, 0, 15, 1] after Rot_yz and [15, 0, 0, 1] after Rot_zx,
\* and w stays 1 at every step.
C10_MainProduct ==
    /\ b # <<>> => b = <<15, 0, 0, 1>>
    /\ stage = 1 => vec = <<15, 0, 0, 1>>
    /\ stage = 2 => vec = <<0, 15, 0, 1>>
    /\ stage = 3 => vec = <<0, 0, 15, 1>>
    /\ stage = 4 => vec = <<15, 0, 0, 1>>
    /\ vec[4] = 1

C10_Witness == stage = 4 /\ vec = <<15, 0, 0, 1>> /\ b = <<15, 0, 0, 1>>

=============================================================================
